---- MODULE Spec2Model ----
(***************************************************************************)
(* The streamlit proxy (lib/streamlit/proxy/Proxy.py): a table from report *)
(* names to ProxyConnection objects, one "local" (producer) link and zero  *)
(* or more "client" (observer) queues per ProxyConnection, a grace timeout *)
(* per registration, and the stop of the tornado IOLoop.                   *)
(*                                                                         *)
(* Every handler runs to completion on the single IOLoop, so each handler  *)
(* is one action; the coroutine add_client is two (before and after its    *)
(* yield).  ProxyConnection and the two WebSocketHandler classes are not   *)
(* part of Proxy.py: their operations are modelled from the specification. *)
(***************************************************************************)
EXTENDS Integers, Sequences, FiniteSets, TLC

\* Bounds of the model.
MaxNames == 2        \* report names
MaxSessions == 2     \* ProxyConnection objects ever constructed
MaxClients == 2      \* client web sockets ever opened
MaxMsgs == 2         \* producer messages that reach a client queue

Names == 1..MaxNames
Sessions == 1..MaxSessions
Clients == 1..MaxClients
Msgs == 1..MaxMsgs

\* Python's None: an absent dict entry, an unset attribute.
None == 0

\* The new-report message new_report_msg sends; producer messages are Msgs.
NewReport == 0

VARIABLES
    connections,   \* Proxy._connections: name -> ProxyConnection (None: no key)
    conn,          \* the ProxyConnection objects, by identity
    nextId,        \* identity of the next ProxyConnection constructed
    timeouts,      \* IOLoop.call_later callbacks pending, in deadline order
    client,        \* the client web sockets: position of their handler, the
                   \* connection add_client found, and (history) whether
                   \* that connection was in its grace period then
    queue,         \* contents of the client queues (queue c is client c's)
    ws,            \* what each client web socket has been sent, in order
    nextMsg,       \* the next producer message
    stopped,       \* Proxy._stopped
    ioloop_stops,  \* the calls of IOLoop.current().stop(), in order
    launches,      \* names passed to _launch_web_client, in order
    stale_fired    \* history: connections whose timeout fired after they
                   \* had been replaced under their name

vars == <<connections, conn, nextId, timeouts, client, queue, ws, nextMsg,
          stopped, ioloop_stops, launches, stale_fired>>

----------------------------------------------------------------------------
(* ProxyConnection, modelled from the specification (sections 3, 4.2, 4.3) *)
(* and from the docstring of try_to_deregister_proxy_connection.           *)

NoConnection ==
    [name |-> None, has_local |-> FALSE, in_grace_period |-> FALSE,
     client_queues |-> {}]

\* A session is created by a producer connect: producer link present, no
\* observer queue, in its grace period.
ProxyConnection(n) ==
    [name |-> n, has_local |-> TRUE, in_grace_period |-> TRUE,
     client_queues |-> {}]

end_grace_period(pc) == [pc EXCEPT !.in_grace_period = FALSE]

close_local_connection(pc) == [pc EXCEPT !.has_local = FALSE]

add_client_queue(pc, q) == [pc EXCEPT !.client_queues = @ \cup {q}]

remove_client_queue(pc, q) == [pc EXCEPT !.client_queues = @ \ {q}]

\* Eligibility: zero observer queues, producer absent or terminated, and not
\* in the grace period.
can_be_deregistered(pc) ==
    /\ pc.client_queues = {}
    /\ ~pc.has_local
    /\ ~pc.in_grace_period

enqueue_front(qs, pc, m) ==
    [c \in Clients |-> IF c \in pc.client_queues THEN <<m>> \o qs[c] ELSE qs[c]]

\* Fan-out: the message goes to the tail of every queue attached at the call.
enqueue(qs, pc, m) ==
    [c \in Clients |-> IF c \in pc.client_queues THEN Append(qs[c], m) ELSE qs[c]]

----------------------------------------------------------------------------
(* Proxy                                                                   *)

Empty(conns) == \A n \in Names : conns[n] = None

\* What the history keeps of a call of IOLoop.current().stop(): the caller,
\* and whether the table was empty at the call.
StopCall(via, conns) == [via |-> via, empty |-> Empty(conns)]

stop_unguarded(p, via, conns) ==
    [stopped |-> TRUE, stops |-> Append(p.stops, StopCall(via, conns))]

\* Proxy.stop: p is the pair of _stopped and the IOLoop stop calls so far.
stop(p, via, conns) ==
    [stopped |-> TRUE,
     stops   |-> IF ~p.stopped THEN Append(p.stops, StopCall(via, conns))
                 ELSE p.stops]

new_name_always(conns, n) == TRUE

\* new_name = connection.name not in self._connections
new_name(conns, n) == conns[n] = None

set_connection_keep_first(conns, n, s) ==
    IF conns[n] = None THEN [conns EXCEPT ![n] = s] ELSE conns

\* self._connections[connection.name] = connection
set_connection(conns, n, s) == [conns EXCEPT ![n] = s]

\* if new_name: _launch_web_client(connection.name)
launch_web_client(ls, isnew, n) == IF isnew THEN Append(ls, n) ELSE ls

proxy_connection_is_registered_never(conns, cs, s) == FALSE

proxy_connection_is_registered_by_name(conns, cs, s) == conns[cs[s].name] # None

\* self._connections.get(connection.name, None) is connection
proxy_connection_is_registered(conns, cs, s) == conns[cs[s].name] = s

try_to_deregister_unchecked(conns, cs, s) ==
    IF can_be_deregistered(cs[s])
    THEN [conns EXCEPT ![cs[s].name] = None]
    ELSE conns

try_to_deregister_any(conns, cs, s) ==
    IF ~proxy_connection_is_registered(conns, cs, s)
    THEN conns
    ELSE [conns EXCEPT ![cs[s].name] = None]

try_to_deregister_in_grace(conns, cs, s) ==
    IF ~proxy_connection_is_registered(conns, cs, s)
    THEN conns
    ELSE IF cs[s].client_queues = {} /\ ~cs[s].has_local
         THEN [conns EXCEPT ![cs[s].name] = None]
         ELSE conns

try_to_deregister_proxy_connection(conns, cs, s) ==
    IF ~proxy_connection_is_registered(conns, cs, s)
    THEN conns
    ELSE IF can_be_deregistered(cs[s])
         THEN [conns EXCEPT ![cs[s].name] = None]
         ELSE conns

potentially_stop_never(conns, p, via) == p

potentially_stop_always(conns, p, via) == stop(p, via, conns)

\* if not self._connections: self.stop()
potentially_stop(conns, p, via) ==
    IF Empty(conns) THEN stop(p, via, conns) ELSE p

stop_proxy_on_exception_checks_empty(raised, conns, p) ==
    IF raised THEN potentially_stop(conns, p, "add_client") ELSE p

stop_proxy_on_exception_swallow(raised, conns, p) == p

\* stop_proxy_on_exception: the wrapped callback raised (or not).
stop_proxy_on_exception(raised, conns, p) ==
    IF raised THEN stop(p, "exception", conns) ELSE p

new_report_msg_dropped(w) == w

\* yield new_report_msg(connection.id, ws): the message is written to the
\* web socket at the call.
new_report_msg(w) == Append(w, NewReport)

Proxy == [stopped |-> stopped, stops |-> ioloop_stops]

SetProxy(p) ==
    /\ stopped' = p.stopped
    /\ ioloop_stops' = p.stops

----------------------------------------------------------------------------
Init ==
    /\ connections = [n \in Names |-> None]
    /\ conn = [s \in Sessions |-> NoConnection]
    /\ nextId = 1
    /\ timeouts = <<>>
    /\ client = [c \in Clients |-> [pc |-> "new", connection |-> None,
                                   in_grace |-> FALSE]]
    /\ queue = [c \in Clients |-> <<>>]
    /\ ws = [c \in Clients |-> <<>>]
    /\ nextMsg = 1
    /\ stopped = FALSE
    /\ ioloop_stops = <<>>
    /\ launches = <<>>
    /\ stale_fired = {}

register_proxy_connection_without_timeout(n) ==
    /\ nextId <= MaxSessions
    /\ \A m \in Names : m < n => \E i \in 1..Len(launches) : launches[i] = m
    /\ LET s == nextId
           isnew == new_name(connections, n)
       IN /\ conn' = [conn EXCEPT ![s] = ProxyConnection(n)]
          /\ connections' = set_connection(connections, n, s)
          /\ launches' = launch_web_client(launches, isnew, n)
          /\ nextId' = nextId + 1
    /\ UNCHANGED <<timeouts, client, queue, ws, nextMsg, stopped,
                   ioloop_stops, stale_fired>>

\* A producer connects under name n: a ProxyConnection is constructed and
\* registered, and its timeout is scheduled.  Names are interchangeable, and
\* are taken in order: n is a name used before or the first unused one.
register_proxy_connection(n) ==
    /\ nextId <= MaxSessions
    /\ \A m \in Names : m < n => \E i \in 1..Len(launches) : launches[i] = m
    /\ LET s == nextId
           isnew == new_name(connections, n)
       IN /\ conn' = [conn EXCEPT ![s] = ProxyConnection(n)]
          /\ connections' = set_connection(connections, n, s)
          /\ launches' = launch_web_client(launches, isnew, n)
          /\ timeouts' = Append(timeouts, s)
          /\ nextId' = nextId + 1
    /\ UNCHANGED <<client, queue, ws, nextMsg, stopped, ioloop_stops,
                   stale_fired>>

connection_timeout_without_deregister ==
    /\ timeouts # <<>>
    /\ LET s == Head(timeouts)
       IN /\ conn' = [conn EXCEPT ![s] = end_grace_period(conn[s])]
          /\ connections' = connections
          /\ SetProxy(potentially_stop(connections, Proxy, "timeout"))
          /\ stale_fired' = IF connections[conn[s].name] \notin {s, None}
                            THEN stale_fired \cup {s}
                            ELSE stale_fired
    /\ timeouts' = Tail(timeouts)
    /\ UNCHANGED <<nextId, client, queue, ws, nextMsg, launches>>

\* The timeout of the oldest registration fires (every timeout has the same
\* delay, so they fire in the order they were scheduled).
connection_timeout ==
    /\ timeouts # <<>>
    /\ LET s == Head(timeouts)
           cs == [conn EXCEPT ![s] = end_grace_period(conn[s])]
           conns == try_to_deregister_proxy_connection(connections, cs, s)
       IN /\ conn' = cs
          /\ connections' = conns
          /\ SetProxy(potentially_stop(conns, Proxy, "timeout"))
          /\ stale_fired' = IF connections[conn[s].name] \notin {s, None}
                            THEN stale_fired \cup {s}
                            ELSE stale_fired
    /\ timeouts' = Tail(timeouts)
    /\ UNCHANGED <<nextId, client, queue, ws, nextMsg, launches>>

add_client_without_queue(c, n) ==
    /\ client[c].pc = "new"
    /\ \A d \in Clients : d < c => client[d].pc # "new"
    /\ IF connections[n] = None
       THEN /\ client' = [client EXCEPT ![c].pc = "failed"]
            /\ SetProxy(stop_proxy_on_exception(TRUE, connections, Proxy))
            /\ UNCHANGED ws
       ELSE LET s == connections[n]
            IN /\ client' = [client EXCEPT ![c] =
                                [pc |-> "sending", connection |-> s,
                                 in_grace |-> conn[s].in_grace_period]]
               /\ ws' = [ws EXCEPT ![c] = new_report_msg(ws[c])]
               /\ SetProxy(stop_proxy_on_exception(FALSE, connections, Proxy))
    /\ UNCHANGED <<connections, conn, nextId, timeouts, queue, nextMsg,
                   launches, stale_fired>>

\* A client web socket opens for name n: add_client up to its yield.  The
\* web sockets are numbered in the order they open, as the sessions are.  A name
\* that is no key raises KeyError out of add_client, through the handler that
\* stop_proxy_on_exception decorates.
add_client(c, n) ==
    /\ client[c].pc = "new"
    /\ \A d \in Clients : d < c => client[d].pc # "new"
    /\ IF connections[n] = None
       THEN /\ client' = [client EXCEPT ![c].pc = "failed"]
            /\ SetProxy(stop_proxy_on_exception(TRUE, connections, Proxy))
            /\ UNCHANGED <<conn, ws>>
       ELSE LET s == connections[n]
            IN /\ conn' = [conn EXCEPT ![s] = add_client_queue(conn[s], c)]
               /\ client' = [client EXCEPT ![c] =
                                [pc |-> "sending", connection |-> s,
                                 in_grace |-> conn[s].in_grace_period]]
               /\ ws' = [ws EXCEPT ![c] = new_report_msg(ws[c])]
               /\ SetProxy(stop_proxy_on_exception(FALSE, connections, Proxy))
    /\ UNCHANGED <<connections, nextId, timeouts, queue, nextMsg, launches,
                   stale_fired>>

\* add_client resumes after new_report_msg and returns (connection, queue).
add_client_return(c) ==
    /\ client[c].pc = "sending"
    /\ client' = [client EXCEPT ![c].pc = "open"]
    /\ UNCHANGED <<connections, conn, nextId, timeouts, queue, ws, nextMsg,
                   stopped, ioloop_stops, launches, stale_fired>>

remove_client_without_deregister(c) ==
    /\ client[c].pc = "open"
    /\ LET s == client[c].connection
       IN /\ conn' = [conn EXCEPT ![s] = remove_client_queue(conn[s], c)]
          /\ SetProxy(potentially_stop(connections, Proxy, "remove_client"))
    /\ client' = [client EXCEPT ![c] = [pc |-> "closed", connection |-> None,
                                        in_grace |-> FALSE]]
    /\ queue' = [queue EXCEPT ![c] = <<>>]
    /\ ws' = [ws EXCEPT ![c] = <<>>]
    /\ UNCHANGED <<connections, nextId, timeouts, nextMsg, launches,
                   stale_fired>>

\* The client web socket closes: remove_client(connection, queue).  The
\* handler and its queue are gone afterwards.
remove_client(c) ==
    /\ client[c].pc = "open"
    /\ LET s == client[c].connection
           cs == [conn EXCEPT ![s] = remove_client_queue(conn[s], c)]
           conns == try_to_deregister_proxy_connection(connections, cs, s)
       IN /\ conn' = cs
          /\ connections' = conns
          /\ SetProxy(potentially_stop(conns, Proxy, "remove_client"))
    /\ client' = [client EXCEPT ![c] = [pc |-> "closed", connection |-> None,
                                        in_grace |-> FALSE]]
    /\ queue' = [queue EXCEPT ![c] = <<>>]
    /\ ws' = [ws EXCEPT ![c] = <<>>]
    /\ UNCHANGED <<nextId, timeouts, nextMsg, launches, stale_fired>>

\* The producer of session s disconnects: the same re-check as a detach.
on_producer_disconnect(s) ==
    /\ conn[s].name # None
    /\ conn[s].has_local
    /\ LET cs == [conn EXCEPT ![s] = close_local_connection(conn[s])]
           conns == try_to_deregister_proxy_connection(connections, cs, s)
       IN /\ conn' = cs
          /\ connections' = conns
          /\ SetProxy(potentially_stop(conns, Proxy, "local_close"))
    /\ UNCHANGED <<nextId, timeouts, client, queue, ws, nextMsg, launches,
                   stale_fired>>

\* The producer of session s sends a message: fan-out to its queues.  The
\* messages are numbered in publish order; one that no queue receives leaves
\* no trace and takes no number.
publish(s) ==
    /\ conn[s].name # None
    /\ conn[s].has_local
    /\ nextMsg <= MaxMsgs
    /\ queue' = enqueue(queue, conn[s], nextMsg)
    /\ nextMsg' = IF conn[s].client_queues = {} THEN nextMsg ELSE nextMsg + 1
    /\ UNCHANGED <<connections, conn, nextId, timeouts, client, ws, stopped,
                   ioloop_stops, launches, stale_fired>>

\* The handler of client c, open, takes the head of its queue and sends it.
pump_queue(c) ==
    /\ client[c].pc = "open"
    /\ queue[c] # <<>>
    /\ ws' = [ws EXCEPT ![c] = Append(ws[c], Head(queue[c]))]
    /\ queue' = [queue EXCEPT ![c] = Tail(queue[c])]
    /\ UNCHANGED <<connections, conn, nextId, timeouts, client, nextMsg,
                   stopped, ioloop_stops, launches, stale_fired>>

\* The registry and its lifecycle.  publish writes queue and nextMsg only,
\* which no action here reads, so it is left to SpecFanout.
Next ==
    \/ \E n \in Names : register_proxy_connection(n)
    \/ connection_timeout
    \/ \E c \in Clients, n \in Names : add_client(c, n)
    \/ \E c \in Clients : add_client_return(c)
    \/ \E c \in Clients : remove_client(c)
    \/ \E s \in Sessions : on_producer_disconnect(s)

Spec == Init /\ [][Next]_vars

\* The events that are bound to come: a scheduled timeout fires, the send
\* add_client waits for completes, an open client web socket closes, a
\* connected producer disconnects.
Pending ==
    \/ connection_timeout
    \/ \E c \in Clients : add_client_return(c)
    \/ \E c \in Clients : remove_client(c)
    \/ \E s \in Sessions : on_producer_disconnect(s)

\* The IOLoop runs the handler of an event that is due.  Nothing makes a
\* producer or a client connect.
Fairness == WF_vars(Pending)

SpecLive == Init /\ [][Next]_vars /\ Fairness

\* Fan-out: every handler, with the producers all connecting under one name
\* (a rerun replaces the session, the replaced one keeps its queues).
FanName == CHOOSE n \in Names : TRUE

NextFanout ==
    \/ register_proxy_connection(FanName)
    \/ connection_timeout
    \/ \E c \in Clients : add_client(c, FanName)
    \/ \E c \in Clients : add_client_return(c)
    \/ \E c \in Clients : remove_client(c)
    \/ \E s \in Sessions : on_producer_disconnect(s)
    \/ \E s \in Sessions : publish(s)

SpecFanout == Init /\ [][NextFanout]_vars

\* The handlers of NextFanout and the client handlers' sending of what their
\* queues hold.
NextDelivery ==
    \/ NextFanout
    \/ \E c \in Clients : pump_queue(c)

SpecDelivery == Init /\ [][NextDelivery]_vars

----------------------------------------------------------------------------
(* Properties                                                              *)

\* Session s was created and a later registration took its name.
Replaced(s) == \E t \in Sessions : t > s /\ conn[t].name = conn[s].name

TimerPending(s) == \E i \in 1..Len(timeouts) : timeouts[i] = s

\* What try_to_deregister_proxy_connection(s) must do to the registry, by
\* the state of s at the call: the handler has changed s by then, and the
\* call changes no session.
TryRemoveEffect(s) ==
    LET n == conn[s].name
        current == connections[n] = s
        zero == conn'[s].client_queues = {}
        noprod == ~conn'[s].has_local
        ended == ~conn'[s].in_grace_period
    IN connections' = IF current /\ zero /\ noprod /\ ended
                      THEN [connections EXCEPT ![n] = None]
                      ELSE connections

\* C1: tryRemove(s) removes s from the registry if and only if s is current
\* under its name, has zero observer queues, has no live producer link and
\* is out of its grace period; in every other case the registry is unchanged.
\* The three handlers that call it are the steps checked.
C1_Eligibility ==
    [][/\ connection_timeout => TryRemoveEffect(Head(timeouts))
       /\ \A c \in Clients :
             remove_client(c) => TryRemoveEffect(client[c].connection)
       /\ \A s \in Sessions :
             on_producer_disconnect(s) => TryRemoveEffect(s)]_vars

\* A session that tryRemove has removed: eligible, never replaced, and its
\* name has no session.
C1_Witness ==
    \E s \in Sessions :
        /\ conn[s].name # None
        /\ ~Replaced(s)
        /\ connections[conn[s].name] = None
        /\ conn[s].client_queues = {}
        /\ ~conn[s].has_local
        /\ ~conn[s].in_grace_period

\* C2: a session whose grace timer has not fired yet, and which no newer
\* producer has replaced, is registered under its name.
C2_GraceProtection ==
    \A s \in Sessions :
        (conn[s].name # None /\ TimerPending(s) /\ ~Replaced(s))
            => (conn[s].in_grace_period /\ connections[conn[s].name] = s)

\* In its grace period, with the producer gone and an observer detached, so
\* that tryRemove has run on a session only the grace period protects.
C2_Witness ==
    \E s \in Sessions :
        /\ TimerPending(s)
        /\ connections[conn[s].name] = s
        /\ ~conn[s].has_local
        /\ conn[s].client_queues = {}
        /\ \E c \in Clients : client[c].pc = "closed"

\* The session registered last under name n.
Latest(n) ==
    CHOOSE s \in Sessions :
        conn[s].name = n /\ \A t \in Sessions : conn[t].name = n => t <= s

\* C3: a registration under n leaves the new session (with its producer
\* link) as the one session under n and touches no other name; the session
\* stored under a name is always the one registered last for that name.
C3_Replacement ==
    /\ [](\A n \in Names : connections[n] # None =>
             (conn[connections[n]].name = n /\ connections[n] = Latest(n)))
    /\ [][\A n \in Names : register_proxy_connection(n) =>
             /\ connections'[n] = nextId
             /\ conn'[nextId].name = n
             /\ conn'[nextId].has_local
             /\ \A m \in Names \ {n} : connections'[m] = connections[m]]_vars

\* Two sessions were registered under one name and the later one is stored.
C3_Witness ==
    \E s1, s2 \in Sessions :
        /\ s1 < s2
        /\ conn[s1].name # None
        /\ conn[s1].name = conn[s2].name
        /\ connections[conn[s2].name] = s2

\* C4: the IOLoop is stopped at most once; a step that empties the registry
\* leaves the proxy stopped with that one stop; once stopped, no handler
\* stops the loop again.
C4_ShutdownOnce ==
    /\ [](Len(ioloop_stops) <= 1 /\ (stopped <=> Len(ioloop_stops) = 1))
    /\ [][(~Empty(connections) /\ Empty(connections'))
             => (stopped' /\ Len(ioloop_stops') = 1)]_vars
    /\ [][stopped => (stopped' /\ ioloop_stops' = ioloop_stops)]_vars

\* The loop was stopped when a timeout emptied the registry, and a later
\* handler (the KeyError of an observer connect) called stop again.
C4_Witness ==
    /\ Len(ioloop_stops) = 1
    /\ ioloop_stops[1].via = "timeout"
    /\ \E c \in Clients : client[c].pc = "failed"

\* C5: the timeout of a session s1 that s2 has replaced under its name leaves
\* s2 registered, leaves s2's record and the whole registry as they were, and
\* does not stop the proxy.
C5_StaleTimer ==
    [][connection_timeout =>
          LET s1 == Head(timeouts)
              n == conn[s1].name
              s2 == connections[n]
          IN (s2 # None /\ s2 # s1) =>
                /\ connections' = connections
                /\ conn'[s2] = conn[s2]
                /\ stopped' = stopped
                /\ ioloop_stops' = ioloop_stops]_vars

\* The timeout of a replaced session has fired, that session is eligible
\* itself, and its successor is registered.
C5_Witness ==
    \E s1 \in stale_fired :
        /\ conn[s1].client_queues = {}
        /\ ~conn[s1].has_local
        /\ connections[conn[s1].name] \notin {s1, None}

\* C6 as the specification states it: whenever the IOLoop is stopped the
\* table is empty, so no failure of one connection's handler stops the proxy
\* while sessions are registered.
C6_StopOnlyWhenEmpty ==
    \A i \in 1..Len(ioloop_stops) : ioloop_stops[i].empty

\* C6, amended: potentially_stop stops the IOLoop only when the table is
\* empty; every stop taken with sessions registered comes from
\* stop_proxy_on_exception.
C6_StopEmptyOrException ==
    \A i \in 1..Len(ioloop_stops) :
        ioloop_stops[i].via # "exception" => ioloop_stops[i].empty

\* potentially_stop ran with a session registered (in the timeout of a
\* replaced session) and left the proxy running; it stopped the proxy later,
\* when a detach emptied the table.
C6_Witness ==
    /\ Len(ioloop_stops) = 1
    /\ ioloop_stops[1].via = "remove_client"
    /\ ioloop_stops[1].empty
    /\ stale_fired # {}

\* The observer connect of client c for name n finds no session.
NotFound(c, n) == add_client(c, n) /\ connections[n] = None

\* C7 as the specification states it: an observer connect that finds no
\* session does not shut the proxy down.
C7_NotFoundRecoverable ==
    \A i \in 1..Len(ioloop_stops) : ioloop_stops[i].via # "exception"

\* C7, amended: an observer connect for a name with no session creates no
\* queue and changes neither the registry nor any session, and the KeyError
\* it raises stops the proxy (the IOLoop, if it was not stopped before).
C7_NotFoundStops ==
    [][\A c \in Clients, n \in Names : NotFound(c, n) =>
          /\ connections' = connections
          /\ conn' = conn
          /\ queue' = queue
          /\ client'[c].pc = "failed"
          /\ stopped'
          /\ ioloop_stops' = IF stopped THEN ioloop_stops
                             ELSE Append(ioloop_stops,
                                         StopCall("exception", connections))]_vars

\* An observer connect failed while a session was registered under another
\* name, and it stopped the proxy.
C7_Witness ==
    /\ \E c \in Clients : client[c].pc = "failed"
    /\ Len(ioloop_stops) = 1
    /\ ioloop_stops[1].via = "exception"
    /\ ~ioloop_stops[1].empty

\* C8: a registration launches the viewer once, for its name, when the name
\* had no session, and not at all when it replaces one; nothing else
\* launches a viewer.
C8_LaunchOncePerNewName ==
    /\ [][\A n \in Names : register_proxy_connection(n) =>
             launches' = IF connections[n] = None
                         THEN Append(launches, n) ELSE launches]_vars
    /\ [][launches' # launches =>
             \E n \in Names : register_proxy_connection(n)]_vars

\* More registrations than launches: one of them replaced a session.
C8_Witness == nextId - 1 > Len(launches) /\ Len(launches) > 0

Eligible(s) ==
    /\ conn[s].client_queues = {}
    /\ ~conn[s].has_local
    /\ ~conn[s].in_grace_period

\* C9: after every handler, no session registered under its name is
\* eligible for removal.
C9_RemovedWhenEligible ==
    \A n \in Names : connections[n] # None => ~Eligible(connections[n])

\* A session went through its grace period with an observer attached, lost
\* its producer and then its last observer, and is gone from the registry.
C9_Witness ==
    \E s \in Sessions :
        /\ conn[s].name # None
        /\ Eligible(s)
        /\ connections[conn[s].name] = None
        /\ Len(ioloop_stops) = 1
        /\ ioloop_stops[1].via = "remove_client"

StrictlyIncreasing(q) == \A i, j \in 1..Len(q) : i < j => q[i] < q[j]

C11_InitialMessageFirst ==
    \A c \in Clients :
        /\ client[c].pc = "sending" => ws[c] = <<NewReport>>
        /\ client[c].pc = "open" =>
              /\ ws[c] # <<>>
              /\ Head(ws[c]) = NewReport
              /\ \A i \in 2..Len(ws[c]) : ws[c][i] \in Msgs
              /\ StrictlyIncreasing(Tail(ws[c]) \o queue[c])
        /\ client[c].pc \notin {"sending", "open"} => ws[c] = <<>>

\* A message published during the suspension waited in the queue and was
\* sent after the new-report message; another one is still queued.
C11_WitnessDelivered ==
    \E c \in Clients :
        /\ client[c].pc = "open"
        /\ ws[c] = <<NewReport, 1>>
        /\ queue[c] = <<2>>

\* A publish happens while the attach is suspended in its yield.
C11_Witness ==
    \E c \in Clients :
        /\ client[c].pc = "sending"
        /\ queue[c] # <<>>
        /\ ws[c] = <<NewReport>>

\* One producer has connected, no other ever has, and no client web socket
\* has opened.
OnlySessionNoObserver ==
    /\ nextId = 2
    /\ \A c \in Clients : client[c].pc = "new"

C12_WitnessStillConnected ==
    /\ OnlySessionNoObserver
    /\ timeouts = <<>>
    /\ conn[1].has_local
    /\ connections[conn[1].name] = 1

\* Client c's queue is attached to the session registered under its name,
\* was attached within the grace period, and the grace period has ended.
AttachedBeforeFire(c) ==
    LET s == client[c].connection
    IN /\ client[c].pc \in {"sending", "open"}
       /\ client[c].in_grace
       /\ ~conn[s].in_grace_period
       /\ connections[conn[s].name] = s

\* The first half of C13: a timeout that fires on a registered session with
\* a queue attached leaves the session registered and stops nothing.
StaysRegisteredAtFire ==
    connection_timeout =>
        LET s == Head(timeouts)
        IN (connections[conn[s].name] = s /\ conn[s].client_queues # {}) =>
              /\ connections' = connections
              /\ ioloop_stops' = ioloop_stops

\* C13 as stated: an observer attaches before the grace timer fires, so the
\* session is still registered after the fire; when that observer later
\* disconnects the session is removed in that step, and shutdown is
\* requested in that step if the registry is then empty.
C13_RemovedAtDetach ==
    [][/\ StaysRegisteredAtFire
       /\ \A c \in Clients :
             (remove_client(c) /\ AttachedBeforeFire(c)) =>
                 /\ connections'[conn[client[c].connection].name] = None
                 /\ Empty(connections') => stopped']_vars

\* C13 amended: the session is still registered after the fire; when that
\* observer later disconnects, the session is removed in that step if the
\* observer's queue was the last one attached and the producer has
\* disconnected, and shutdown is requested in that step if the registry is
\* then empty; with the producer connected or another queue attached the
\* detach leaves the registry as it is and stops nothing.
C13_RemovedAtLastDetach ==
    [][/\ StaysRegisteredAtFire
       /\ \A c \in Clients :
             (remove_client(c) /\ AttachedBeforeFire(c)) =>
                 LET s == client[c].connection
                 IN IF conn[s].client_queues = {c} /\ ~conn[s].has_local
                    THEN /\ connections'[conn[s].name] = None
                         /\ Empty(connections') => stopped'
                    ELSE /\ connections' = connections
                         /\ ioloop_stops' = ioloop_stops]_vars

\* The timer has fired on a session whose producer was gone and whose one
\* observer attached within the grace period: the session is registered, and
\* the observer's disconnect is due.
C13_Witness ==
    \E c \in Clients :
        /\ AttachedBeforeFire(c)
        /\ client[c].pc = "open"
        /\ conn[client[c].connection].client_queues = {c}
        /\ ~conn[client[c].connection].has_local

\* The same with the producer still connected: the disconnect of the
\* observer will not remove the session.
C13_WitnessStillConnected ==
    \E c \in Clients :
        /\ AttachedBeforeFire(c)
        /\ client[c].pc = "open"
        /\ conn[client[c].connection].client_queues = {c}
        /\ conn[client[c].connection].has_local

\* ProxyConnection s has its local connection or a client connection open.
HasOpenConnection(s) ==
    conn[s].has_local \/ conn[s].client_queues # {}

\* C14: the proxy shuts down only when the final ProxyConnection closes.
\* Stated for the stops that potentially_stop takes from the two handlers
\* of Proxy.py that call it: in the state such a stop leaves, no
\* ProxyConnection has its local connection or a client connection open.
C14_StopsWhenFinalCloses ==
    [][(/\ ioloop_stops' # ioloop_stops
        /\ ioloop_stops'[Len(ioloop_stops')].via \in {"timeout", "remove_client"})
          => \A s \in Sessions : ~HasOpenConnection(s)']_vars

\* Session s1 has been replaced: another session is stored under its name.
Stale(s1) ==
    /\ conn[s1].name # None
    /\ connections[conn[s1].name] \notin {s1, None}

\* C15: a timeout, a client disconnect or a producer disconnect for a
\* session s1 that has been replaced under its name changes neither the
\* registry nor the session s2 stored under that name, and stops nothing
\* (no exception, no shutdown), whatever the state of s1 itself.
C15_StaleIgnored ==
    [][\A s1 \in Sessions :
          (/\ Stale(s1)
           /\ \/ connection_timeout /\ Head(timeouts) = s1
              \/ on_producer_disconnect(s1)
              \/ \E c \in Clients :
                    remove_client(c) /\ client[c].connection = s1)
            => /\ connections' = connections
               /\ conn'[connections[conn[s1].name]] =
                      conn[connections[conn[s1].name]]
               /\ stopped' = stopped
               /\ ioloop_stops' = ioloop_stops]_vars

\* The timeout of a replaced session s1 has fired, its producer has
\* disconnected, and the disconnect of its last observer, which will make
\* s1 satisfy the eligibility predicate, is due; its successor is
\* registered, in its grace period.
C15_Witness ==
    \E s1 \in stale_fired : \E c \in Clients :
        /\ Stale(s1)
        /\ client[c].pc = "open"
        /\ conn[s1].client_queues = {c}
        /\ ~conn[s1].has_local
        /\ conn[connections[conn[s1].name]].in_grace_period

\* C16: when every scheduled timeout fires, every producer disconnects and
\* every observer detaches, then, once producers have stopped connecting,
\* the registry is empty and shutdown has been requested, and they stay so,
\* in whatever order the disconnect of a session's producer, the detaches of
\* its observers and its timeout come; unless no producer ever connected.
C16_EventuallyShutDown ==
    <>[](nextId = 1 \/ (Empty(connections) /\ stopped))

\* The disconnect of the producer came last, after the timeout and the
\* detach of an observer, and it emptied the registry and stopped the proxy.
C16_Witness ==
    /\ Empty(connections)
    /\ stopped
    /\ timeouts = <<>>
    /\ Len(ioloop_stops) = 1
    /\ ioloop_stops[1].via = "local_close"
    /\ \E c \in Clients : client[c].pc = "closed"
    /\ \A c \in Clients : client[c].pc # "failed"

\* C17: add_client attaches the queue before it suspends, so the queue of a
\* client whose add_client is suspended or has returned is one of the
\* queues of the connection add_client found, and a timeout that fires for
\* that connection while add_client is suspended leaves it registered.
C17_AttachSurvivesFire ==
    /\ [](\A c \in Clients : client[c].pc \in {"sending", "open"} =>
             c \in conn[client[c].connection].client_queues)
    /\ [][connection_timeout =>
             LET s == Head(timeouts)
             IN (/\ connections[conn[s].name] = s
                 /\ \E c \in Clients : /\ client[c].pc = "sending"
                                        /\ client[c].connection = s)
                   => /\ connections'[conn[s].name] = s
                      /\ ioloop_stops' = ioloop_stops]_vars

\* add_client is suspended on a connection whose timeout has fired since
\* the queue was attached; the producer is gone and the queue is the only
\* one, so the queue alone has kept the connection registered.
C17_Witness ==
    \E c \in Clients :
        LET s == client[c].connection
        IN /\ client[c].pc = "sending"
           /\ client[c].in_grace
           /\ ~conn[s].in_grace_period
           /\ ~conn[s].has_local
           /\ conn[s].client_queues = {c}
           /\ connections[conn[s].name] = s

\* C18: a registration schedules one timeout, for the connection it
\* registers, and leaves the scheduled ones scheduled; a timeout goes only by
\* firing, which ends the grace period of its connection; so a connection in
\* its grace period has exactly one timeout scheduled, and a grace period
\* that has ended never starts again.
C18_GraceTimer ==
    /\ [](\A s \in Sessions : conn[s].in_grace_period =>
             Cardinality({i \in 1..Len(timeouts) : timeouts[i] = s}) = 1)
    /\ [][\A n \in Names : register_proxy_connection(n) =>
             timeouts' = Append(timeouts, nextId)]_vars
    /\ [][\A s \in Sessions :
             /\ (TimerPending(s) /\ ~TimerPending(s)') =>
                    (conn[s].in_grace_period /\ ~conn'[s].in_grace_period)
             /\ (conn[s].name # None /\ ~conn[s].in_grace_period) =>
                    ~conn'[s].in_grace_period]_vars

\* A connection is in its grace period, its timeout scheduled, while the
\* grace period of an older one has ended, and a client that connected
\* after that end has not started it again.
C18_Witness ==
    \E s1, s2 \in Sessions : \E c \in Clients :
        /\ conn[s2].in_grace_period
        /\ TimerPending(s2)
        /\ conn[s1].name # None
        /\ ~conn[s1].in_grace_period
        /\ ~TimerPending(s1)
        /\ client[c].pc = "open"
        /\ client[c].connection = s1
        /\ ~client[c].in_grace

\* C19: potentially_stop is called at the end of a timeout and of a
\* disconnect only, and each of them needs a connection that was registered;
\* so whenever the proxy has been stopped through potentially_stop, a
\* connection had been registered before, and a proxy where no producer has
\* ever connected is not stopped by it, its empty table notwithstanding.
C19_StopNeedsRegistration ==
    \A i \in 1..Len(ioloop_stops) :
        ioloop_stops[i].via # "exception" =>
            /\ nextId > 1
            /\ ioloop_stops[i].via \in {"timeout", "remove_client", "local_close"}

\* The one connection ever registered was deregistered at the disconnect of
\* its last client, and potentially_stop stopped the proxy.
C19_Witness ==
    /\ nextId = 2
    /\ stopped
    /\ Len(ioloop_stops) = 1
    /\ ioloop_stops[1].via = "remove_client"
    /\ ioloop_stops[1].empty
    /\ Empty(connections)

\* No producer has ever connected, the table is empty, and handlers have
\* run: client web sockets have opened (and found no connection).
C19_WitnessNeverRegistered ==
    /\ nextId = 1
    /\ Empty(connections)
    /\ \A c \in Clients : client[c].pc = "failed"
    /\ \A i \in 1..Len(ioloop_stops) : ioloop_stops[i].via = "exception"

============================================================================
